---- MODULE Spec2Model ----
(***************************************************************************)
(* A model of InWeCrypto/cryptox:                                          *)
(*   - the NEO transaction engine (CalcTxInput, CreateSendAssertTx,        *)
(*     CreateClaimTx, RawTx.GenerateWithSign and the byte writers), and    *)
(*   - the web3 keystore codec (Web3KeyStore.Write / Read, getKDFKey) with *)
(*     the eth key bridge (KeyFromPrivateKey, WriteScryptKeyStore,         *)
(*     WriteLightScryptKeyStore, ReadKeyStore).                            *)
(*                                                                         *)
(* Byte strings are sequences over 0..255.  Text strings that the code     *)
(* hex-decodes are sequences of character codes: 0..15 are the hex digits  *)
(* '0'..'f', CharX is 'x' and CharG stands for any other character.        *)
(* Amounts (float64 in the code) are integers counting tenths of a unit.   *)
(***************************************************************************)
EXTENDS Integers, Sequences, FiniteSets, TLC

VARIABLES
    unspent,    \* the caller's []*neogo.UTXO slice (shared backing array)
    tx,         \* the *RawTx the caller holds
    txret,      \* what the last transaction-engine call returned
    signLog,    \* (signing data, txid) of each successful GenerateWithSign on tx, in order
    signCalls,  \* number of GenerateWithSign calls made on tx
    key,        \* the eth.Key the caller holds
    doc,        \* the keystore JSON document the caller holds
    written,    \* the last Write: its key, password, attrs and emitted document
    ksret       \* what the last keystore call returned

txvars == <<unspent, tx, txret, signLog, signCalls>>
ksvars == <<key, doc, written, ksret>>
vars == <<unspent, tx, txret, signLog, signCalls, key, doc, written, ksret>>

(***************************************************************************)
(* Bounds of the model.                                                    *)
(***************************************************************************)
MaxUtxos == 3      \* longest unspent list the caller passes
MaxSigns == 2      \* GenerateWithSign calls on one transaction
NumNonces == 2     \* distinct signatures the randomized signer can return
BulkLen == 256     \* outputs of a wallet that holds many small ones

(***************************************************************************)
(* Bytes, characters and hex.                                              *)
(***************************************************************************)
CharX == 16
CharG == 17

Range(s) == {s[i] : i \in 1..Len(s)}

\* reverseBytes: reverses in place and returns the slice.
reverseBytes(s) == [i \in 1..Len(s) |-> s[Len(s) + 1 - i]]

\* hex.EncodeToString
HexEncode(bs) ==
    [i \in 1..(2 * Len(bs)) |->
        IF i % 2 = 1 THEN bs[(i + 1) \div 2] \div 16 ELSE bs[i \div 2] % 16]

\* hex.DecodeString: an odd length or a non-hex character is an error.
HexDecode(h) ==
    IF Len(h) % 2 = 1 \/ (\E i \in 1..Len(h) : h[i] > 15)
    THEN [ok |-> FALSE, bytes |-> <<>>]
    ELSE [ok |-> TRUE,
          bytes |-> [i \in 1..(Len(h) \div 2) |-> 16 * h[2 * i - 1] + h[2 * i]]]

\* strings.TrimPrefix(s, "0x")
TrimPrefix0x(s) ==
    IF Len(s) >= 2 /\ s[1] = 0 /\ s[2] = CharX THEN SubSeq(s, 3, Len(s)) ELSE s

\* binary.LittleEndian.PutUint16 / PutUint64
RECURSIVE LittleEndian(_, _)
LittleEndian(v, n) ==
    IF n = 0 THEN <<>> ELSE <<v % 256>> \o LittleEndian(v \div 256, n - 1)

\* byte(len(x)): a Go int converted to one byte.
ToByte(n) == n % 256

\* sha256.Sum256, taken as collision free: the digest is an injective
\* encoding of the hashed bytes.
Sha256(bs) == <<Len(bs) % 256>> \o bs

(***************************************************************************)
(* Transaction engine: data.                                               *)
(***************************************************************************)
\* Transaction types.
ClaimTransaction == 2
ContractTransaction == 128

\* Attribute usages that decide whether RawTxAttr.WriteBytes writes a length.
ECDH03 == 3
Vote == 48
Hash1 == 161
Hash15 == 175

\* Asset ids.  The code's ids are 32-byte hex strings; the model keeps the
\* first byte of each ("60...", "c5...").
GasAssert == <<6, 0>>
NEOAssert == <<12, 5>>

\* Addresses are base58-check strings; the model names them by a number.
FromAddress == 1
ToAddress == 2
BadAddress == 0           \* a string base58.CheckDecode rejects

\* The value string of a UTXO that does not parse as a number.
BadValue == -1

\* neogo.UTXO: TransactionID, Vout.N, Vout.Value, SpentBlock.
UTXO(id, n, v, h) == [TransactionID |-> id, N |-> n, value |-> v, SpentBlock |-> h]

\* The outputs a node can hand to the caller.
Pool ==
    { UTXO(<<0, CharX, 0, 1, 10, 11>>, 0, 5, 3),
      UTXO(<<0, 2, 12, 13>>, 5, 7, 1),
      UTXO(<<0, 4, 0, 0>>, 2, 7, 1),
      UTXO(<<0, CharG>>, 0, 12, 4),
      UTXO(<<0, 6>>, 3, BadValue, 2) }

\* A wallet of BulkLen outputs worth 0.1, 0.2, ... spent in blocks 1, 2, ...
BulkList ==
    [i \in 1..BulkLen |-> UTXO(<<(i \div 16) % 16, i % 16>>, i, i, i)]

Amounts == {0, 5, 10}

\* Amounts a payment asks for: also one the whole wallet is needed for.
SendAmounts == Amounts \cup {BulkLen}

\* neogo's UTXO.Value(): the value string parsed as a float64, with an error
\* (and value 0, as strconv.ParseFloat gives) when it does not parse.
Value(u) ==
    IF u.value = BadValue THEN [val |-> 0, err |-> TRUE]
    ELSE [val |-> u.value, err |-> FALSE]

NoTx ==
    [live |-> FALSE, Type |-> 0, hasXData |-> FALSE, Claims |-> <<>>,
     Attributes |-> <<>>, Inputs |-> <<>>, Outputs |-> <<>>, Scripts |-> <<>>]

\* NewRawTx: Type set, Version 0, every list nil, no XData.
NewRawTx(txType) == [NoTx EXCEPT !.live = TRUE, !.Type = txType]

\* NewRawClaimTx: a RawTx of type ClaimTransaction whose XData closure
\* serializes the Claims of the enclosing RawClaimTx.
NewRawClaimTx == [NewRawTx(ClaimTransaction) EXCEPT !.hasXData = TRUE]

RawTxInput(u) == [TxID |-> u.TransactionID, Vout |-> u.N % 65536]

RawTxOutput(asset, v, addr) == [AssertID |-> asset, Value |-> v, Address |-> addr]

(***************************************************************************)
(* Sorting.  sort.Sort is not stable: any permutation of the slice that is *)
(* ascending by the key is a possible result, and it is written back into  *)
(* the caller's slice.                                                     *)
(***************************************************************************)
Perms(n) == {p \in [1..n -> 1..n] : \A i, j \in 1..n : p[i] = p[j] => i = j}

utxoLess(a, b) == Value(a).val < Value(b).val

claimLess(a, b) == a.SpentBlock < b.SpentBlock

SortedPerms(list, Less(_, _)) ==
    IF \A i \in 1..(Len(list) - 1) : Less(list[i], list[i + 1])
    THEN {list}      \* strictly ascending: the only ascending arrangement
    ELSE
    { s \in { [i \in 1..Len(list) |-> list[p[i]]] : p \in Perms(Len(list)) } :
        \A i \in 1..(Len(list) - 1) : ~Less(s[i + 1], s[i]) }

utxoSorter(list) == SortedPerms(list, utxoLess)

claimSorter(list) == SortedPerms(list, claimLess)

(***************************************************************************)
(* CalcTxInput, on the slice as sort.Sort left it.                         *)
(***************************************************************************)
\* Line 597: vinvalue, err = utxo.Value()  -- the running value after
\* visiting an output of value val.
NextVinValue(vinvalue, val) == val

RECURSIVE CalcLoop(_, _, _, _, _)
\* The range loop over list[lo..hi], entered in the state st: the outputs
\* selected so far, vinvalue (total), and whether the loop has returned
\* (done).  A range of several outputs is its first half, then its second.
CalcLoop(amount, list, lo, hi, st) ==
    IF st.done \/ lo > hi THEN st
    ELSE IF lo = hi
    THEN LET sel == Append(st.selected, list[lo])
             v == Value(list[lo])
             vin == NextVinValue(st.total, v.val)
         IN  IF v.err
             THEN [selected |-> <<>>, total |-> 0, err |-> "ErrValue", done |-> TRUE]
             ELSE [selected |-> sel, total |-> vin, err |-> "nil",
                   done |-> vin > amount]
    ELSE CalcLoop(amount, list, ((lo + hi) \div 2) + 1, hi,
                  CalcLoop(amount, list, lo, (lo + hi) \div 2, st))

CalcTxInput(amount, sorted) ==
    LET r == CalcLoop(amount, sorted, 1, Len(sorted),
                      [selected |-> <<>>, total |-> 0, err |-> "nil", done |-> FALSE])
    IN  [selected |-> r.selected, total |-> r.total, err |-> r.err]

(***************************************************************************)
(* Serialization.  A writer's result is [err, bytes]; the first error      *)
(* ends the write.                                                         *)
(***************************************************************************)
Written(bs) == [err |-> "nil", bytes |-> bs]

Failed(e) == [err |-> e, bytes |-> <<>>]

\* Results of writing the items of a list one after the other.
RECURSIVE WriteAll(_)
WriteAll(rs) ==
    IF rs = <<>> THEN Written(<<>>)
    ELSE IF Len(rs) = 1 THEN rs[1]
    ELSE LET left == WriteAll(SubSeq(rs, 1, Len(rs) \div 2))
             right == WriteAll(SubSeq(rs, (Len(rs) \div 2) + 1, Len(rs)))
         IN  IF left.err # "nil" THEN left
             ELSE IF right.err # "nil" THEN right
             ELSE Written(left.bytes \o right.bytes)

\* base58.CheckDecode(address), then result[0:20]: the script hash.
decodeAddress(address) ==
    IF address = BadAddress THEN Failed("ErrAddress")
    ELSE Written([i \in 1..20 |-> address])

\* RawTxAttr.WriteBytes
AttrWriteBytes(attr) ==
    Written(<<attr.Usage>>
            \o (IF ~(attr.Usage <= ECDH03 \/ attr.Usage = Vote
                     \/ (attr.Usage <= Hash15 /\ attr.Usage >= Hash1))
                THEN <<ToByte(Len(attr.Data))>> ELSE <<>>)
            \o attr.Data)

\* RawTxInput.WriteBytes: the id reversed, then the index little-endian.
InputWriteBytes(input) ==
    LET data == HexDecode(TrimPrefix0x(input.TxID))
    IN  IF ~data.ok THEN Failed("ErrHex")
        ELSE Written(reverseBytes(data.bytes) \o LittleEndian(input.Vout, 2))

\* The n low bytes, little-endian, of v * m for v >= 0: the product is
\* formed byte by byte, with a carry, as it exceeds the checker's integers.
RECURSIVE MulLittleEndian(_, _, _, _)
MulLittleEndian(v, m, carry, n) ==
    IF n = 0 THEN <<>>
    ELSE <<(v * (m % 256) + carry) % 256>>
         \o MulLittleEndian(v, m \div 256, (v * (m % 256) + carry) \div 256, n - 1)

\* RawTxOutput.WriteBytes: the asset id reversed, floor(value * 10^8)
\* little-endian on 8 bytes (value counts tenths: value * 10^7), the script hash.
OutputWriteBytes(output) ==
    LET data == HexDecode(TrimPrefix0x(output.AssertID))
        addr == decodeAddress(output.Address)
    IN  IF ~data.ok THEN Failed("ErrHex")
        ELSE IF addr.err # "nil" THEN addr
        ELSE Written(reverseBytes(data.bytes)
                     \o MulLittleEndian(output.Value, 10000000, 0, 8)
                     \o addr.bytes)

\* RawTxScript.WriteBytes
ScriptWriteBytes(script) ==
    Written(<<ToByte(ToByte(Len(script.StackScript)) + 1),
              ToByte(Len(script.StackScript))>>
            \o script.StackScript
            \o <<ToByte(ToByte(Len(script.RedeemScript)) + 2),
                 ToByte(Len(script.RedeemScript))>>
            \o script.RedeemScript
            \o <<172>>)

\* A 1-byte count followed by the records of a list.
CountedList(list, WriteOne(_)) ==
    WriteAll(<<Written(<<ToByte(Len(list))>>)>>
             \o [i \in 1..Len(list) |-> WriteOne(list[i])])

\* The XData closure NewRawClaimTx installs.
ClaimXData(t) == CountedList(t.Claims, InputWriteBytes)

\* A writeSignData that also serializes the scripts already attached.
writeSignDataWithScripts(t) ==
    WriteAll(<<Written(<<t.Type, 0>>),
               IF t.hasXData THEN ClaimXData(t) ELSE Written(<<>>),
               CountedList(t.Attributes, AttrWriteBytes),
               CountedList(t.Inputs, InputWriteBytes),
               CountedList(t.Outputs, OutputWriteBytes),
               CountedList(t.Scripts, ScriptWriteBytes)>>)

\* RawTx.writeSignData: header, payload, attributes, inputs, outputs.
writeSignData(t) ==
    WriteAll(<<Written(<<t.Type, 0>>),
               IF t.hasXData THEN ClaimXData(t) ELSE Written(<<>>),
               CountedList(t.Attributes, AttrWriteBytes),
               CountedList(t.Inputs, InputWriteBytes),
               CountedList(t.Outputs, OutputWriteBytes)>>)

\* RawTx.WriteBytes: the signing data, then the scripts.
WriteBytes(t) ==
    WriteAll(<<writeSignData(t), CountedList(t.Scripts, ScriptWriteBytes)>>)

\* Key.PrivateKey.Sign(data, P256): ECDSA draws a fresh nonce per signature;
\* PublicKey.ToBytes() is the redeem script.
Sign(data, nonce) == <<nonce, Len(data) % 256>>

SignerPublicKey == <<4, 7, 7>>

(***************************************************************************)
(* Keystore codec: primitives.                                             *)
(***************************************************************************)
standardScryptN == 262144
standardScryptP == 1
lightScryptN == 4096
lightScryptP == 6
scryptR == 8
scryptDklen == 32
KeyBytesLen == 32     \* the width Write pads the private key to
AESBlockSize == 16
UUIDLen == 16

\* Bitwise exclusive or of two bytes.
RECURSIVE Xor(_, _)
Xor(a, b) ==
    IF a = 0 THEN b
    ELSE IF b = 0 THEN a
    ELSE ((a + b) % 2) + 2 * Xor(a \div 2, b \div 2)

\* big.Int.SetBytes / Bytes: a scalar is its big-endian magnitude without
\* leading zero bytes.
RECURSIVE StripLeadingZeros(_)
StripLeadingZeros(bs) ==
    IF bs # <<>> /\ bs[1] = 0 THEN StripLeadingZeros(Tail(bs)) ELSE bs

\* make([]byte, n) then copy(dst, src): src at the front, zeros after it.
CopyInto(n, src) == [i \in 1..n |-> IF i <= Len(src) THEN src[i] ELSE 0]

\* src right-aligned in n bytes (zeros in front); src itself when longer.
LeftPad(n, src) ==
    IF Len(src) >= n THEN src
    ELSE [i \in 1..n |-> IF i <= n - Len(src) THEN 0 ELSE src[i - (n - Len(src))]]

\* sha3.NewKeccak256, taken as collision free: the digest is an injective
\* encoding of the hashed bytes.
Keccak256(bs) == <<Len(bs) % 256>> \o bs

\* What a KDF mixes: the password, the salt and the cost parameters.  The
\* KDFs are taken as collision free on the inputs of the model (passwords
\* that differ in length or first byte, salts that differ in their first
\* byte): every 8 bytes of output spell the inputs.
KdfMix(password, salt, a, b, c) ==
    << IF password = <<>> THEN 0 ELSE password[1], Len(password) % 256,
       IF salt = <<>> THEN 0 ELSE salt[1],
       a % 256, (a \div 256) % 256, (a \div 65536) % 256, b % 256, c % 256 >>

\* pbkdf2.Key(password, salt, iter, keyLen, h): a buffer of whole 32-byte
\* blocks (its capacity), cut to keyLen (its length).  A block does not
\* depend on keyLen.  keyLen <= 0 leaves no capacity.
Pbkdf2Buffer(mix, keyLen) ==
    [buf |-> [i \in 1..(32 * ((keyLen + 31) \div 32)) |-> mix[((i - 1) % 8) + 1]],
     len |-> keyLen]

IsPowerOfTwo(n) == \E e \in 1..30 : n = 2 ^ e

\* scrypt.Key: an error unless N is a power of two above 1; the result is
\* pbkdf2.Key(password, B, 1, keyLen) over the mixed block B.
scryptKey(password, salt, N, r, p, keyLen) ==
    IF ~IsPowerOfTwo(N) \/ r <= 0 \/ p <= 0
    THEN [err |-> "ErrScrypt", buf |-> <<>>, len |-> 0]
    ELSE [err |-> "nil"] @@ Pbkdf2Buffer(KdfMix(password, salt, N, r, p), keyLen)

pbkdf2Key(password, salt, c, keyLen) ==
    [err |-> "nil"] @@ Pbkdf2Buffer(KdfMix(password, salt, c, 255, 255), keyLen)

\* derivedKey[lo:hi] of a Go slice: allowed up to the capacity.
CanSlice(dk, lo, hi) == 0 <= lo /\ lo <= hi /\ hi <= Len(dk.buf) /\ dk.len >= 0

Slice(dk, lo, hi) == SubSeq(dk.buf, lo + 1, hi)

\* AES-128-CTR key stream: a function of the key, the IV and the position.
KeyStream(aesKey, iv, i) ==
    (aesKey[((i - 1) % Len(aesKey)) + 1] + iv[((i - 1) % Len(iv)) + 1] + 7 * i) % 256

\* aesCTRXOR: the input xor the key stream, byte by byte, same length.
aesCTRXOR(aesKey, inText, iv) ==
    [i \in 1..Len(inText) |-> Xor(inText[i], KeyStream(aesKey, iv, i))]

\* GetEntropyCSPRNG(n) when rand.Reader delivers: n bytes of the draw.
GetEntropyCSPRNG(n, seed) == [i \in 1..n |-> (seed * 17 + i) % 256]

(***************************************************************************)
(* Keystore codec: the JSON document.  A generic JSON value (an            *)
(* interface{} after json.Unmarshal) is a number, a string or absent; a    *)
(* string is either a name (s) or a text of character codes (h).           *)
(***************************************************************************)
JNum(n) == [t |-> "num", n |-> n, s |-> "", h |-> <<>>]

JStr(name) == [t |-> "str", n |-> 0, s |-> name, h |-> <<>>]

JText(chars) == [t |-> "str", n |-> 0, s |-> "", h |-> chars]

JMissing == [t |-> "missing", n |-> 0, s |-> "", h |-> <<>>]

\* The characters of a JSON string: a name is not hex text.
Chars(j) == IF j.s # "" THEN <<CharG>> ELSE j.h

NoParams ==
    [salt |-> JMissing, dklen |-> JMissing, n |-> JMissing, r |-> JMissing,
     p |-> JMissing, c |-> JMissing, prf |-> JMissing]

NoDoc ==
    [live |-> FALSE, version |-> JMissing, address |-> <<>>, id |-> <<>>,
     crypto |-> [cipher |-> "", ciphertext |-> <<>>, iv |-> <<>>, kdf |-> "",
                 kdfparams |-> NoParams, mac |-> <<>>]]

\* eth.Key: ID, Address and the private scalar D (its public point is
\* ScalarBaseMult(D) in every constructor).
NoKey == [live |-> FALSE, ID |-> <<>>, Address |-> <<>>, D |-> <<>>]

\* Two keys hold the same ID, address and private scalar.
SameKey(a, b) == a.ID = b.ID /\ a.Address = b.Address /\ a.D = b.D

\* uuid.UUID.String and uuid.Parse (the dashes of the text form are left out):
\* Parse gives nil for a text that is not a UUID.
UUIDString(id) == IF Len(id) = UUIDLen THEN HexEncode(id) ELSE <<>>

UUIDParse(text) ==
    LET d == HexDecode(text)
    IN  IF d.ok /\ Len(d.bytes) = UUIDLen THEN d.bytes ELSE <<>>

(***************************************************************************)
(* eth key bridge.                                                         *)
(***************************************************************************)
\* Curve.ScalarBaseMult(d): the public point, a function of the scalar's
\* value (leading zero bytes of d do not matter), one to one.
ScalarBaseMult(d) ==
    [X |-> LeftPad(KeyBytesLen, StripLeadingZeros(d)),
     Y |-> reverseBytes(LeftPad(KeyBytesLen, StripLeadingZeros(d)))]

\* fromECDSAPub: elliptic.Marshal, the tag 4 then X and Y.
fromECDSAPub(pub) == <<4>> \o pub.X \o pub.Y

\* pubkeyToAddress: hex of keccak256(pubBytes[1:])[12:].
pubkeyToAddress(pub) ==
    LET pubBytes == fromECDSAPub(pub)
        digest == Keccak256(Tail(pubBytes))
    IN  HexEncode(SubSeq(digest, 13, Len(digest)))

\* toECDSA(d, false): D = SetBytes(d).
toECDSA(d) == [D |-> StripLeadingZeros(d), PublicKey |-> ScalarBaseMult(d)]

\* KeyFromPrivateKey, with the id uuid.NewRandom drew.
KeyFromPrivateKey(privateKey, id) ==
    [live |-> TRUE, ID |-> id,
     Address |-> pubkeyToAddress(toECDSA(privateKey).PublicKey),
     D |-> toECDSA(privateKey).D]

\* ethKeyToKeyStoreKey: PrivateKey = key.PrivateKey.D.Bytes().
ethKeyToKeyStoreKey(k) ==
    [ID |-> k.ID, Address |-> k.Address, PrivateKey |-> StripLeadingZeros(k.D)]

\* keystoreKeyToEthKey: the address is taken from the keystore key.
keystoreKeyToEthKey(k) ==
    [live |-> TRUE, ID |-> k.ID, Address |-> k.Address,
     D |-> toECDSA(k.PrivateKey).D]

(***************************************************************************)
(* Web3KeyStore.Write.                                                     *)
(***************************************************************************)
\* Lines 180-191: scryptN and scryptP start as the light values; inside
\* `if scryptN, ok := attrs["ScryptN"]; ok { scryptN = scryptN.(int) }` the
\* name scryptN is the new variable of the if statement, so the assignment
\* never reaches the outer one.
WriteScryptN(attrs) == lightScryptN

WriteScryptP(attrs) == lightScryptP

\* The buffer of lines 204-206 used as the plaintext: the key bytes copied
\* to the front of 32 zero bytes.
WritePlaintextCopied(privateKey) ==
    IF Len(privateKey) < KeyBytesLen THEN CopyInto(KeyBytesLen, privateKey)
    ELSE privateKey

\* Lines 201-207: keyBytes := key.PrivateKey; the 32-byte buffer is declared
\* with := inside the if block and dropped at its end.
WritePlaintext(privateKey) == privateKey

\* Web3KeyStore.Write given the salt and IV it drew: the error of scrypt.Key
\* (no document then) or the marshalled document.
Write(k, password, attrs, salt, iv) ==
    LET scryptN == WriteScryptN(attrs)
        scryptP == WriteScryptP(attrs)
        derivedKey == scryptKey(password, salt, scryptN, scryptR, scryptP, scryptDklen)
        encryptKey == Slice(derivedKey, 0, 16)
        keyBytes == WritePlaintext(k.PrivateKey)
        cipherText == aesCTRXOR(encryptKey, keyBytes, iv)
        mac == Keccak256(Slice(derivedKey, 16, 32) \o cipherText)
    IN  IF derivedKey.err # "nil" THEN [err |-> derivedKey.err, doc |-> NoDoc]
        ELSE
        [err |-> "nil",
         doc |->
           [live |-> TRUE,
            version |-> JNum(3),
            address |-> k.Address,
            id |-> UUIDString(k.ID),
            crypto |->
               [cipher |-> "aes-128-ctr",
                ciphertext |-> HexEncode(cipherText),
                iv |-> HexEncode(iv),
                kdf |-> "scrypt",
                kdfparams |-> [NoParams EXCEPT
                                 !.n = JNum(scryptN), !.r = JNum(scryptR),
                                 !.p = JNum(scryptP), !.dklen = JNum(scryptDklen),
                                 !.salt = JText(HexEncode(salt))],
                mac |-> HexEncode(mac)]]]

\* The attrs WriteScryptKeyStore and WriteLightScryptKeyStore pass.
StandardAttrs == [ScryptN |-> standardScryptN, ScryptP |-> standardScryptP]

LightAttrs == [ScryptN |-> lightScryptN, ScryptP |-> lightScryptP]

(***************************************************************************)
(* Web3KeyStore.Read.  A result carries the steps performed, in order; a   *)
(* failed type assertion or an out-of-range slice is the error "panic".    *)
(***************************************************************************)
\* ensureInt(x): x.(int), else int(x.(float64)); a JSON number is a float64.
CanEnsureInt(x) == x.t = "num"

ensureInt(x) == x.n

NoDerived == [buf |-> <<>>, len |-> 0]

KdfFailed(e) == [err |-> e] @@ NoDerived

\* A PRF check that lets every name through.
PrfAny(prf) == TRUE

\* Line 164: prf != "hmac-sha256" is the unsupported case.
PrfSupported(prf) == prf = JStr("hmac-sha256")

\* getKDFKey
getKDFKey(crypto, auth) ==
    LET params == crypto.kdfparams
        salt == HexDecode(Chars(params.salt))
        dkLen == ensureInt(params.dklen)
    IN  IF params.salt.t # "str" THEN KdfFailed("panic")
        ELSE IF ~salt.ok THEN KdfFailed("ErrHex")
        ELSE IF ~CanEnsureInt(params.dklen) THEN KdfFailed("panic")
        ELSE IF crypto.kdf = "scrypt"
        THEN IF ~(CanEnsureInt(params.n) /\ CanEnsureInt(params.r)
                  /\ CanEnsureInt(params.p))
             THEN KdfFailed("panic")
             ELSE IF dkLen < 0 /\ IsPowerOfTwo(ensureInt(params.n))
                     /\ ensureInt(params.r) > 0 /\ ensureInt(params.p) > 0
             THEN KdfFailed("panic")
             ELSE scryptKey(auth, salt.bytes, ensureInt(params.n),
                            ensureInt(params.r), ensureInt(params.p), dkLen)
        ELSE IF crypto.kdf = "pbkdf2"
        THEN IF ~CanEnsureInt(params.c) THEN KdfFailed("panic")
             ELSE IF params.prf.t # "str" THEN KdfFailed("panic")
             ELSE IF ~PrfSupported(params.prf) THEN KdfFailed("ErrPRF")
             ELSE IF dkLen < 0 THEN KdfFailed("panic")
             ELSE pbkdf2Key(auth, salt.bytes, ensureInt(params.c), dkLen)
        ELSE KdfFailed("ErrKDF")

\* A comparison that accepts any stored MAC.
MacEqualAlways(calculatedMAC, mac) == TRUE

\* Line 111: bytes.Equal(calculatedMAC, mac)
MacEqual(calculatedMAC, mac) == calculatedMAC = mac

Decrypted(e, steps, keyBytes, keyID) ==
    [err |-> e, steps |-> steps, keyBytes |-> keyBytes, keyID |-> keyID]

\* Web3KeyStore.decryptKeyV3
decryptKeyV3(k, password) ==
    LET c == k.crypto
        keyID == UUIDParse(k.id)
        mac == HexDecode(c.mac)
        iv == HexDecode(c.iv)
        cipherText == HexDecode(c.ciphertext)
        derivedKey == getKDFKey(c, password)
        calculatedMAC == Keccak256(Slice(derivedKey, 16, 32) \o cipherText.bytes)
        pre == <<"cipher", "hex", "kdf">>
    IN  IF c.cipher # "aes-128-ctr" THEN Decrypted("ErrCipher", <<"cipher">>, <<>>, <<>>)
        ELSE IF ~(mac.ok /\ iv.ok /\ cipherText.ok)
        THEN Decrypted("ErrHex", <<"cipher", "hex">>, <<>>, <<>>)
        ELSE IF derivedKey.err # "nil" THEN Decrypted(derivedKey.err, pre, <<>>, <<>>)
        ELSE IF ~CanSlice(derivedKey, 16, 32)
        THEN Decrypted("panic", pre \o <<"derived">>, <<>>, <<>>)
        ELSE IF ~MacEqual(calculatedMAC, mac.bytes)
        THEN Decrypted("ErrDecrypt", pre \o <<"derived", "mac">>, <<>>, <<>>)
        ELSE IF Len(iv.bytes) # AESBlockSize
        THEN Decrypted("panic", pre \o <<"derived", "mac">>, <<>>, <<>>)
        ELSE Decrypted("nil", pre \o <<"derived", "mac", "decrypt">>,
                       aesCTRXOR(Slice(derivedKey, 0, 16), cipherText.bytes, iv.bytes),
                       keyID)

\* Line 50: version, ok := kv["version"].(string); ok && version != "3"
VersionRejected(version) == version.t = "str" /\ version # JStr("3")

\* json.Unmarshal into encryptedKeyJSONV3, whose version field is the number
\* Write sets to 3: a JSON string there is a type error; an absent field
\* leaves the zero value.
UnmarshalTyped(k) == k.version.t # "str"

ReadResult(e, steps, k) == [err |-> e, steps |-> steps, key |-> k]

NoKeystoreKey == [ID |-> <<>>, Address |-> <<>>, PrivateKey |-> <<>>]

\* Web3KeyStore.Read
Read(data, password) ==
    LET d == decryptKeyV3(data, password)
    IN  IF VersionRejected(data.version)
        THEN ReadResult("ErrVersion", <<"gate">>, NoKeystoreKey)
        ELSE IF ~UnmarshalTyped(data)
        THEN ReadResult("ErrJSON", <<"gate", "unmarshal">>, NoKeystoreKey)
        ELSE IF d.err # "nil"
        THEN ReadResult(d.err, <<"gate", "unmarshal">> \o d.steps, NoKeystoreKey)
        ELSE ReadResult("nil", <<"gate", "unmarshal">> \o d.steps,
                        [ID |-> d.keyID, Address |-> data.address,
                         PrivateKey |-> d.keyBytes])

\* eth.ReadKeyStore: keystore.Decrypt, then keystoreKeyToEthKey.
ReadKeyStore(data, password) ==
    LET r == Read(data, password)
    IN  IF r.err # "nil" THEN [err |-> r.err, steps |-> r.steps, key |-> NoKey]
        ELSE [err |-> "nil", steps |-> r.steps, key |-> keystoreKeyToEthKey(r.key)]

(***************************************************************************)
(* Transaction engine: the calls.                                          *)
(***************************************************************************)
NoTxRet ==
    [op |-> "none", err |-> "nil", input |-> <<>>, amount |-> 0, to |-> 0,
     selected |-> <<>>, total |-> 0, raw |-> <<>>, txid |-> <<>>,
     signData |-> <<>>]

\* CreateSendAssertTx on the sorted slice: the transaction and the error.
CreateSendAssertTx(assert, from, to, amount, sorted) ==
    LET r == CalcTxInput(amount, sorted)
    IN  IF r.err # "nil" THEN [tx |-> NoTx, err |-> r.err, calc |-> r]
        ELSE IF r.total < amount THEN [tx |-> NoTx, err |-> "ErrNoUTXO", calc |-> r]
        ELSE [tx |-> [NewRawTx(ContractTransaction) EXCEPT
                        !.Inputs = [i \in 1..Len(r.selected) |-> RawTxInput(r.selected[i])],
                        !.Outputs = <<RawTxOutput(assert, amount, to)>>
                                    \o (IF r.total > amount
                                        THEN <<RawTxOutput(assert, r.total - amount, from)>>
                                        ELSE <<>>)],
              err |-> "nil", calc |-> r]

\* CreateClaimTx on the sorted slice.
CreateClaimTx(val, address, sorted) ==
    [NewRawClaimTx EXCEPT
        !.Claims = [i \in 1..Len(sorted) |-> RawTxInput(sorted[i])],
        !.Outputs = <<RawTxOutput(GasAssert, val, address)>>]

\* The display id: double SHA-256 of the signing data, reversed, in hex.
TxID(signData) == HexEncode(reverseBytes(Sha256(Sha256(signData))))

\* The script GenerateWithSign attaches.
SignerScript(signData, nonce) ==
    [StackScript |-> Sign(signData, nonce), RedeemScript |-> SignerPublicKey]

\* The script list GenerateWithSign leaves on the transaction.
AttachScript(scripts, script) == <<script>>

DoCalcTxInput ==
    \E amount \in Amounts, s \in utxoSorter(unspent) :
        LET r == CalcTxInput(amount, s)
        IN  /\ unspent' = s
            /\ txret' = [NoTxRet EXCEPT !.op = "CalcTxInput", !.err = r.err,
                            !.input = unspent, !.amount = amount,
                            !.selected = r.selected, !.total = r.total]
            /\ UNCHANGED <<tx, signLog, signCalls>>
            /\ UNCHANGED ksvars

DoCreateSendAssertTx ==
    \E amount \in SendAmounts, to \in {ToAddress, BadAddress}, s \in utxoSorter(unspent) :
        LET r == CreateSendAssertTx(NEOAssert, FromAddress, to, amount, s)
        IN  /\ unspent' = s
            /\ tx' = r.tx
            /\ txret' = [NoTxRet EXCEPT !.op = "CreateSendAssertTx", !.err = r.err,
                            !.input = unspent, !.amount = amount, !.to = to,
                            !.selected = r.calc.selected, !.total = r.calc.total]
            /\ signLog' = <<>>
            /\ signCalls' = 0
            /\ UNCHANGED ksvars

DoCreateClaimTx ==
    \E val \in Amounts, s \in claimSorter(unspent) :
        /\ unspent' = s
        /\ tx' = CreateClaimTx(val, FromAddress, s)
        /\ txret' = [NoTxRet EXCEPT !.op = "CreateClaimTx", !.input = unspent,
                        !.amount = val]
        /\ signLog' = <<>>
        /\ signCalls' = 0
        /\ UNCHANGED ksvars

DoGenerateWithSign ==
    /\ tx.live
    /\ signCalls < MaxSigns
    /\ signCalls' = signCalls + 1
    /\ UNCHANGED unspent
    /\ UNCHANGED ksvars
    /\ \E nonce \in 1..NumNonces, signOk \in BOOLEAN :
          LET sd == writeSignData(tx)
              signed == [tx EXCEPT
                           !.Scripts = AttachScript(tx.Scripts, SignerScript(sd.bytes, nonce))]
              wb == WriteBytes(signed)
              ret == [NoTxRet EXCEPT !.op = "GenerateWithSign"]
          IN  IF sd.err # "nil"
              THEN /\ txret' = [ret EXCEPT !.err = sd.err]
                   /\ UNCHANGED <<tx, signLog>>
              ELSE IF ~signOk
              THEN /\ txret' = [ret EXCEPT !.err = "ErrSign"]
                   /\ UNCHANGED <<tx, signLog>>
              ELSE /\ tx' = signed
                   /\ IF wb.err # "nil"
                      THEN /\ txret' = [ret EXCEPT !.err = wb.err]
                           /\ UNCHANGED signLog
                      ELSE /\ txret' = [ret EXCEPT !.raw = wb.bytes,
                                           !.txid = TxID(sd.bytes),
                                           !.signData = sd.bytes]
                           /\ signLog' = Append(signLog,
                                 [signData |-> sd.bytes, txid |-> TxID(sd.bytes)])

\* The lists a caller passes: distinct outputs of the pool, in any order.
UtxoLists ==
    { l \in UNION { [1..n -> Pool] : n \in 0..MaxUtxos } :
        \A i, j \in 1..Len(l) : l[i] = l[j] => i = j }


(***************************************************************************)
(* Keystore: the calls.                                                    *)
(***************************************************************************)
\* What the random source can deliver: Write reads the salt and then the IV
\* from it, uuid.NewRandom reads an id.
EntropyDraws == {1}

UUIDDraws == {1}

Passwords == { <<112>>, <<112, 50>> }

\* Private keys a caller imports: a full 32-byte scalar, one with a leading
\* zero byte, one that fits a single byte.
PrivateKeys ==
    { [i \in 1..32 |-> 16 + i],
      [i \in 1..32 |-> IF i = 1 THEN 0 ELSE 200 + i],
      [i \in 1..32 |-> IF i = 32 THEN 5 ELSE 0] }

NoWritten ==
    [live |-> FALSE, key |-> NoKey, password |-> <<>>, attrs |-> LightAttrs,
     pristine |-> FALSE, keyReadWith |-> <<>>]

NoKsRet ==
    [op |-> "none", err |-> "nil", password |-> <<>>, steps |-> <<>>,
     key |-> NoKey, entropyFailed |-> FALSE]

KsIdle ==
    /\ key = NoKey
    /\ doc = NoDoc
    /\ written = NoWritten
    /\ ksret = NoKsRet

TxIdle ==
    /\ unspent = <<>>
    /\ tx = NoTx
    /\ txret = NoTxRet
    /\ signLog = <<>>
    /\ signCalls = 0

\* KeyFromPrivateKey.  The caller makes or imports keys before it holds a
\* document; afterwards its key changes only by reading one.
DoKeyFromPrivateKey ==
    \E priv \in PrivateKeys, id \in UUIDDraws :
        /\ ~doc.live
        /\ key' = KeyFromPrivateKey(priv, GetEntropyCSPRNG(UUIDLen, id))
        /\ ksret' = [NoKsRet EXCEPT !.op = "KeyFromPrivateKey", !.key = key']
        /\ UNCHANGED <<doc, written>>
        /\ UNCHANGED txvars

\* NewKey: ecdsa.GenerateKey draws the scalar; its error is returned.
DoNewKey ==
    \E priv \in PrivateKeys, id \in UUIDDraws, randOk \in BOOLEAN :
        /\ ~doc.live
        /\ IF randOk
           THEN /\ key' = KeyFromPrivateKey(priv, GetEntropyCSPRNG(UUIDLen, id))
                /\ ksret' = [NoKsRet EXCEPT !.op = "NewKey", !.key = key']
           ELSE /\ key' = key
                /\ ksret' = [NoKsRet EXCEPT !.op = "NewKey", !.err = "ErrRand",
                                !.entropyFailed = TRUE]
        /\ UNCHANGED <<doc, written>>
        /\ UNCHANGED txvars

\* WriteScryptKeyStore / WriteLightScryptKeyStore on the caller's key.
\* GetEntropyCSPRNG panics when the random source fails.
WriteKeyStore(op, attrs) ==
    /\ key.live
    /\ \E password \in Passwords, draw \in EntropyDraws, entropyOk \in BOOLEAN :
          LET w == Write(ethKeyToKeyStoreKey(key), password, attrs,
                         GetEntropyCSPRNG(32, draw),
                         GetEntropyCSPRNG(AESBlockSize, draw + 1))
          IN  IF ~entropyOk
              THEN /\ ksret' = [NoKsRet EXCEPT !.op = op, !.err = "panic",
                                   !.password = password,
                                   !.entropyFailed = TRUE]
                   /\ UNCHANGED <<doc, written>>
              ELSE /\ ksret' = [NoKsRet EXCEPT !.op = op, !.err = w.err,
                                   !.password = password]
                   /\ doc' = w.doc
                   /\ written' = [live |-> w.err = "nil", key |-> key,
                                  password |-> password, attrs |-> attrs,
                                  pristine |-> w.err = "nil",
                                  keyReadWith |->
                                     IF ksret.op = "ReadKeyStore" /\ ksret.err = "nil"
                                     THEN ksret.password ELSE <<>>]
    /\ UNCHANGED key
    /\ UNCHANGED txvars

DoWriteScryptKeyStore == WriteKeyStore("WriteScryptKeyStore", StandardAttrs)

DoWriteLightScryptKeyStore == WriteKeyStore("WriteLightScryptKeyStore", LightAttrs)

\* ReadKeyStore on the caller's document.
DoReadKeyStore ==
    /\ doc.live
    /\ \E password \in Passwords :
          LET r == ReadKeyStore(doc, password)
          IN  /\ ksret' = [op |-> "ReadKeyStore", err |-> r.err,
                           password |-> password, steps |-> r.steps, key |-> r.key,
                           entropyFailed |-> FALSE]
              /\ key' = IF r.err = "nil" THEN r.key ELSE key
    /\ UNCHANGED <<doc, written>>
    /\ UNCHANGED txvars

\* The address of some other account, as 40 hex characters.
OtherAddress == [i \in 1..40 |-> 10]

\* A text with its first character replaced.
WithFirst(text, ch) == [i \in 1..Len(text) |-> IF i = 1 THEN ch ELSE text[i]]

\* Documents that differ from the written one in a single place: edited
\* by hand, corrupted in storage, or produced by another tool.
Altered(d) ==
    { [d EXCEPT !.version = v] : v \in {JNum(4), JStr("3"), JStr("4"), JMissing} }
    \cup { [d EXCEPT !.crypto.mac = WithFirst(@, ch)] : ch \in {(d.crypto.mac[1] + 1) % 16, CharG} }
    \cup { [d EXCEPT !.crypto.ciphertext = WithFirst(@, (@[1] + 1) % 16)] }
    \cup { [d EXCEPT !.crypto.cipher = "aes-256-ctr"] }
    \cup { [d EXCEPT !.crypto.kdf = "bcrypt"] }
    \cup { [d EXCEPT !.crypto.kdf = "pbkdf2",
                     !.crypto.kdfparams.c = JNum(lightScryptN),
                     !.crypto.kdfparams.prf = JStr(prf)] :
             prf \in {"hmac-sha256", "hmac-sha1"} }
    \cup { [d EXCEPT !.address = a] : a \in {OtherAddress} \ {d.address} }
    \cup { [d EXCEPT !.crypto.iv = Tail(Tail(@))] }
    \cup { [d EXCEPT !.crypto.kdfparams.salt = JMissing] }
    \cup { [d EXCEPT !.crypto.kdfparams.dklen = v] :
             v \in {JStr("32"), JNum(0), JNum(16)} }
    \cup { [d EXCEPT !.crypto.kdf = "pbkdf2",
                     !.crypto.kdfparams.c = JNum(lightScryptN)] }

DoAlter ==
    /\ doc.live
    /\ written.pristine
    /\ \E d \in Altered(doc) : doc' = d
    /\ written' = [written EXCEPT !.pristine = FALSE]
    /\ ksret' = [NoKsRet EXCEPT !.op = "Alter"]
    /\ UNCHANGED key
    /\ UNCHANGED txvars

InitKS == KsIdle /\ TxIdle

NextKS ==
    \/ DoKeyFromPrivateKey
    \/ DoNewKey
    \/ DoWriteScryptKeyStore
    \/ DoWriteLightScryptKeyStore
    \/ DoReadKeyStore
    \/ DoAlter

SpecKS == InitKS /\ [][NextKS]_vars

InitTx ==
    /\ unspent \in UtxoLists \cup {BulkList}
    /\ tx = NoTx
    /\ txret = NoTxRet
    /\ signLog = <<>>
    /\ signCalls = 0
    /\ KsIdle

NextTx ==
    \/ DoCalcTxInput
    \/ DoCreateSendAssertTx
    \/ DoCreateClaimTx
    \/ DoGenerateWithSign

SpecTx == InitTx /\ [][NextTx]_vars

(***************************************************************************)
(* Claims about the transaction engine (checked under SpecTx).             *)
(***************************************************************************)
RECURSIVE SumValues(_)
SumValues(list) ==
    IF list = <<>> THEN 0
    ELSE IF Len(list) = 1 THEN Value(list[1]).val
    ELSE SumValues(SubSeq(list, 1, Len(list) \div 2))
         + SumValues(SubSeq(list, (Len(list) \div 2) + 1, Len(list)))

AllParse(list) == \A i \in 1..Len(list) : ~Value(list[i]).err

\* Length of the shortest prefix whose cumulative value exceeds amount, or
\* the length of the list when no prefix does.
ShortestExceeding(list, amount) ==
    IF \E k \in 1..Len(list) : SumValues(SubSeq(list, 1, k)) > amount
    THEN CHOOSE k \in 1..Len(list) :
            /\ SumValues(SubSeq(list, 1, k)) > amount
            /\ \A j \in 1..(k - 1) : SumValues(SubSeq(list, 1, j)) <= amount
    ELSE Len(list)

\* C4: the list CalcTxInput returns is the shortest prefix of the list sorted
\* ascending by value whose cumulative sum of values strictly exceeds the
\* amount, or the whole sorted list when no prefix sum does.
C4_GreedyPrefix ==
    (txret.op = "CalcTxInput" /\ txret.err = "nil") =>
        \E s \in utxoSorter(txret.input) :
            txret.selected = SubSeq(s, 1, ShortestExceeding(s, txret.amount))

\* C5: the total CalcTxInput returns is the sum of the values of the outputs
\* it returns as selected.
C5_SelectedTotal ==
    (txret.op = "CalcTxInput" /\ txret.err = "nil") =>
        txret.total = SumValues(txret.selected)

\* C6: when the outputs passed to CreateSendAssertTx are worth more than the
\* amount, the call succeeds with exactly two outputs, the payment (asset,
\* amount, to) and the change (asset, selected total - amount, from); and
\* ErrNoUTXO is returned only when the available total is below the amount.
C6_PaymentAndChange ==
    (txret.op = "CreateSendAssertTx" /\ AllParse(txret.input)) =>
        /\ SumValues(txret.input) > txret.amount =>
              /\ txret.err = "nil"
              /\ tx.Outputs =
                    <<RawTxOutput(NEOAssert, txret.amount, txret.to),
                      RawTxOutput(NEOAssert,
                                  SumValues(txret.selected) - txret.amount,
                                  FromAddress)>>
        /\ txret.err = "ErrNoUTXO" => SumValues(txret.input) < txret.amount

\* C9: a transaction as a builder returns it has no script; once a
\* GenerateWithSign call has succeeded the script list holds exactly one
\* entry, whatever the number of calls; the bytes a call returns are the
\* signing data (the serialization of the transaction without its scripts),
\* the count byte 1 and that script; and the signing data and the id are the
\* same in every call.
C9_SignAttachesOneScript ==
    /\ (txret.op \in {"CreateSendAssertTx", "CreateClaimTx"} /\ tx.live) =>
          tx.Scripts = <<>>
    /\ signLog # <<>> => Len(tx.Scripts) = 1
    /\ signLog = <<>> => tx.Scripts = <<>>
    /\ (txret.op = "GenerateWithSign" /\ txret.err = "nil") =>
          /\ Len(tx.Scripts) = 1
          /\ txret.signData = writeSignData([tx EXCEPT !.Scripts = <<>>]).bytes
          /\ txret.raw = txret.signData \o <<1>>
                            \o ScriptWriteBytes(tx.Scripts[1]).bytes
          /\ signLog[Len(signLog)] =
                [signData |-> txret.signData, txid |-> txret.txid]
    /\ \A i, j \in 1..Len(signLog) : signLog[i] = signLog[j]

\* Two successful signings of one payment transaction with inputs.
C9_Witness ==
    /\ Len(signLog) = 2
    /\ txret.op = "GenerateWithSign"
    /\ txret.err = "nil"
    /\ Len(tx.Inputs) >= 2
    /\ Len(tx.Outputs) = 2

(***************************************************************************)
(* Claims about the keystore (checked under SpecKS).                       *)
(***************************************************************************)
WriteOps == {"WriteScryptKeyStore", "WriteLightScryptKeyStore"}

\* The document is the one the last Write emitted, byte for byte.
Pristine == doc.live /\ written.live /\ written.pristine

Before(steps, a, b) ==
    \E i, j \in 1..Len(steps) : i < j /\ steps[i] = a /\ steps[j] = b

\* keccak-256(derived[16:32] || ciphertext) recomputed from a password with
\* the record's own kdf and kdfparams equals the stored mac.
MacVerifies(d, password) ==
    LET dk == getKDFKey(d.crypto, password)
    IN  /\ dk.err = "nil"
        /\ CanSlice(dk, 16, 32)
        /\ HexDecode(d.crypto.mac).ok
        /\ HexDecode(d.crypto.ciphertext).ok
        /\ HexDecode(d.crypto.mac).bytes =
              Keccak256(Slice(dk, 16, 32) \o HexDecode(d.crypto.ciphertext).bytes)

\* C1: reading the document a Write (standard or light) emitted, with the
\* password it was written under, succeeds and returns a key with the same
\* ID, address and private scalar, also for a scalar shorter than 32 bytes
\* and for a key that was itself read from a keystore.
C1_RoundTrip ==
    (ksret.op = "ReadKeyStore" /\ Pristine /\ ksret.password = written.password) =>
        /\ ksret.err = "nil"
        /\ ksret.key.live
        /\ SameKey(ksret.key, written.key)
        /\ SameKey(key, written.key)

\* A short scalar, read under one password, written under another with the
\* standard parameters and read back.
C1_Witness ==
    /\ ksret.op = "ReadKeyStore"
    /\ ksret.err = "nil"
    /\ Pristine
    /\ ksret.password = written.password
    /\ written.attrs = StandardAttrs
    /\ Len(written.key.D) < KeyBytesLen
    /\ written.keyReadWith # <<>>
    /\ written.keyReadWith # written.password

\* C2: reading a written document under another password fails with the
\* decrypt error and gives no key; Read gives a key only when the MAC
\* recomputed from the caller's password equals the stored one; and the
\* ciphertext is decrypted only after that comparison has succeeded.
C2_WrongPasswordRejected ==
    ksret.op = "ReadKeyStore" =>
        /\ (Pristine /\ ksret.password # written.password) =>
              (ksret.err = "ErrDecrypt" /\ ~ksret.key.live)
        /\ ksret.key.live => (ksret.err = "nil" /\ MacVerifies(doc, ksret.password))
        /\ "decrypt" \in Range(ksret.steps) =>
              /\ Before(ksret.steps, "mac", "decrypt")
              /\ MacVerifies(doc, ksret.password)
        /\ ksret.err # "nil" => "decrypt" \notin Range(ksret.steps)

C2_Witness ==
    /\ ksret.op = "ReadKeyStore"
    /\ Pristine
    /\ ksret.password # written.password
    /\ ksret.err = "ErrDecrypt"
    /\ "mac" \in Range(ksret.steps)

\* C3: Read fails with the unsupported-version error and gives no key for
\* every document whose version is not 3 (a string other than "3", a number
\* other than 3, no version at all), and accepts the document Write emits.
C3_VersionGate ==
    ksret.op = "ReadKeyStore" =>
        /\ doc.version \notin {JNum(3), JStr("3")} =>
              (ksret.err = "ErrVersion" /\ ~ksret.key.live)
        /\ (Pristine /\ ksret.password = written.password) => ksret.err = "nil"

\* C7: Write derives the key with the ScryptN and ScryptP of attrs and
\* records them as kdfparams n and p (2^18 and 1 for WriteScryptKeyStore,
\* 2^12 and 6 for WriteLightScryptKeyStore).
C7_WriteHonoursAttrs ==
    (ksret.op \in WriteOps /\ ksret.err = "nil") =>
        /\ doc.crypto.kdfparams.n = JNum(written.attrs.ScryptN)
        /\ doc.crypto.kdfparams.p = JNum(written.attrs.ScryptP)
        /\ ksret.op = "WriteScryptKeyStore" =>
              (doc.crypto.kdfparams.n = JNum(standardScryptN)
               /\ doc.crypto.kdfparams.p = JNum(standardScryptP))
        /\ ksret.op = "WriteLightScryptKeyStore" =>
              (doc.crypto.kdfparams.n = JNum(lightScryptN)
               /\ doc.crypto.kdfparams.p = JNum(lightScryptP))
        /\ LET salt == HexDecode(Chars(doc.crypto.kdfparams.salt)).bytes
               dk == scryptKey(written.password, salt, written.attrs.ScryptN,
                               scryptR, written.attrs.ScryptP, scryptDklen)
           IN  HexDecode(doc.crypto.mac).bytes =
                  Keccak256(Slice(dk, 16, 32)
                            \o HexDecode(doc.crypto.ciphertext).bytes)

\* C8: the ciphertext of every document Write emits decodes to exactly 32
\* bytes, also for a private scalar whose bytes are fewer than 32.
C8_FixedWidthPlaintext ==
    (ksret.op \in WriteOps /\ ksret.err = "nil") =>
        Len(HexDecode(doc.crypto.ciphertext).bytes) = KeyBytesLen

\* The salt, dklen and (for pbkdf2) c and prf of a record have the JSON
\* types getKDFKey asserts, and the salt is hex.
KdfParamsDecode(d) ==
    LET params == d.crypto.kdfparams
    IN  /\ params.salt.t = "str"
        /\ HexDecode(Chars(params.salt)).ok
        /\ CanEnsureInt(params.dklen)
        /\ d.crypto.kdf = "pbkdf2" => (CanEnsureInt(params.c) /\ params.prf.t = "str")

\* C10: Read derives a key only for kdf "scrypt", or "pbkdf2" with prf
\* "hmac-sha256"; once Read calls the key derivation on a record whose
\* parameters decode, a pbkdf2 record with another prf fails with the
\* unsupported-PRF error and any other kdf name with the unsupported-KDF
\* error; in both cases Read gives no key and performs neither the MAC
\* comparison nor the decryption.
C10_KDFAgreement ==
    ksret.op = "ReadKeyStore" =>
        /\ "derived" \in Range(ksret.steps) =>
              \/ doc.crypto.kdf = "scrypt"
              \/ (doc.crypto.kdf = "pbkdf2"
                  /\ doc.crypto.kdfparams.prf = JStr("hmac-sha256"))
        /\ ("kdf" \in Range(ksret.steps) /\ KdfParamsDecode(doc)) =>
              /\ (doc.crypto.kdf = "pbkdf2"
                  /\ doc.crypto.kdfparams.prf # JStr("hmac-sha256")) =>
                    ksret.err = "ErrPRF"
              /\ doc.crypto.kdf \notin {"scrypt", "pbkdf2"} => ksret.err = "ErrKDF"
        /\ ksret.err \in {"ErrPRF", "ErrKDF"} =>
              /\ ~ksret.key.live
              /\ "derived" \notin Range(ksret.steps)
              /\ "mac" \notin Range(ksret.steps)
              /\ "decrypt" \notin Range(ksret.steps)

\* A pbkdf2 record with prf "hmac-sha1" read and refused.
C10_Witness ==
    /\ ksret.op = "ReadKeyStore"
    /\ doc.crypto.kdf = "pbkdf2"
    /\ doc.crypto.kdfparams.prf = JStr("hmac-sha1")
    /\ ksret.err = "ErrPRF"

(***************************************************************************)
(* Further claims about the transaction engine (checked under SpecTx).     *)
(***************************************************************************)
SelectionOps == {"CalcTxInput", "CreateSendAssertTx", "CreateClaimTx"}

\* C11: after CalcTxInput, CreateSendAssertTx or CreateClaimTx returns, with
\* a result or an error, the caller's list of unspent outputs holds the same
\* elements in the same order as when the call was made.
C11_CallerListUntouched ==
    txret.op \in SelectionOps => unspent = txret.input

(***************************************************************************)
(* Further claims about the keystore (checked under SpecKS).               *)
(***************************************************************************)
\* The address of a key's own private scalar.
DerivedAddress(k) == pubkeyToAddress(ScalarBaseMult(k.D))

\* C12: the Address of every key NewKey, KeyFromPrivateKey or ReadKeyStore
\* produces, also from a document whose address field was altered after it
\* was written, is the address derived from the key's own private scalar.
C12_AddressConsistent ==
    /\ key.live => key.Address = DerivedAddress(key)
    /\ ksret.key.live => ksret.key.Address = DerivedAddress(ksret.key)

\* C13: Read applied to a document that passes the version and cipher
\* checks, also one whose kdfparams lack a field, hold it with the wrong
\* JSON type or give a dklen below 32, returns a key or an error value; it
\* never aborts.
C13_NoAbortOnMalformed ==
    ksret.op = "ReadKeyStore" => ksret.err # "panic"

\* C14: an operation that draws randomness (Write for the salt and the IV,
\* NewKey for the scalar) and finds the random source failing aborts: it
\* returns no ordinary error value, no document and no key.
C14_EntropyFailureAborts ==
    [][ksret'.entropyFailed =>
          /\ ksret'.err = "panic"
          /\ ~ksret'.key.live
          /\ doc' = doc
          /\ key' = key]_vars

(***************************************************************************)
(* Count bytes (checked under SpecTx).                                     *)
(***************************************************************************)
\* A list written with a count that is the number of its records.
ExactCounted(list, WriteOne(_)) ==
    WriteAll(<<Written(<<Len(list)>>)>>
             \o [i \in 1..Len(list) |-> WriteOne(list[i])])

\* The signing data of t with every count equal to its list's length.
ExactSignData(t) ==
    WriteAll(<<Written(<<t.Type, 0>>),
               IF t.hasXData THEN ExactCounted(t.Claims, InputWriteBytes)
               ELSE Written(<<>>),
               ExactCounted(t.Attributes, AttrWriteBytes),
               ExactCounted(t.Inputs, InputWriteBytes),
               ExactCounted(t.Outputs, OutputWriteBytes)>>)

\* C15: in the bytes writeSignData and WriteBytes produce for a transaction
\* a builder returned, and in the claim payload of NewRawClaimTx, each count
\* byte is the number of records (claims, attributes, inputs, outputs,
\* scripts) serialized after it, also for more than 255 inputs or claims.
C15_CountBytesExact ==
    tx.live =>
        /\ writeSignData(tx).err = "nil" =>
              writeSignData(tx).bytes = ExactSignData(tx).bytes
        /\ WriteBytes(tx).err = "nil" =>
              WriteBytes(tx).bytes =
                 ExactSignData(tx).bytes
                 \o ExactCounted(tx.Scripts, ScriptWriteBytes).bytes

====
